---- MODULE Spec2Model ----
(***************************************************************************)
(* Model of covid_19_dashboard.py: the module-level load of the case table *)
(* (read_csv, drop/groupby/sum/T, to_datetime, dropna, diff/fillna) and    *)
(* the Dash callback update_graphs.                                        *)
(*                                                                         *)
(* A DataFrame is a record [index, columns, values]: index is the row      *)
(* labels, columns the column labels, values[i][j] the cell of row i and   *)
(* column j.  Timestamps are day numbers (day 1 = 2020-01-22).             *)
(***************************************************************************)
EXTENDS Integers, Sequences, FiniteSets

VARIABLES pc, data, daily_cases, figures, last

vars == <<pc, data, daily_cases, figures, last>>

----------------------------------------------------------------------------
(* Bounds and the input sets of the model.                                 *)

\* Largest number of rows of the downloaded file.
MaxRows == 2

\* Country/Region labels a row can carry, in the lexicographic order
\* groupby sorts its keys into.
Labels == <<"A", "B", "C", "D", "E", "F">>

\* The labels of the rows of the small files.
FileLabels == {"A", "B"}

\* Cell values of the downloaded file (counts); a cell may also be missing.
Counts == {0, 1}

\* pandas' missing value (float NaN): a number no count or difference takes.
NaN == -1000

\* pandas' missing timestamp (NaT): no day number.
NaT == -1

\* Header rows of the downloaded file, after the three dropped columns and
\* the label column: date columns in calendar order as upstream writes
\* them, possibly with a column that is no date.
HeaderRows ==
    { <<>>,
      <<"1/22/20">>, <<"1/23/20">>, <<"Population">>,
      <<"1/22/20", "1/23/20">>,
      <<"1/22/20", "Population">>, <<"Population", "1/23/20">>,
      <<"1/22/20", "Population", "1/23/20">> }

\* Values the country dropdown can send: nothing, a label, an unknown name.
CountryInputs == {"", "A", "B", "Z"}

\* Values the date picker can send: nothing, or an ISO date.
DateInputs == {"", "2020-01-22", "2020-01-23"}

----------------------------------------------------------------------------
(* Helpers on sequences.                                                   *)

Min(a, b) == IF a <= b THEN a ELSE b

RECURSIVE SumSeq(_)
SumSeq(s) == IF s = <<>> THEN 0 ELSE Head(s) + SumSeq(Tail(s))

\* All sequences over S of length at most n.
SeqsUpTo(S, n) == UNION { [1..k -> S] : k \in 0..n }

----------------------------------------------------------------------------
(* Line 15: data = pd.read_csv(url).  A file is a header row and rows of   *)
(* a label and one cell per header column.                                 *)

RawRows(h) == [label : FileLabels,
               cells : [1..Len(h) -> Counts \cup {NaN}]]

read_csv == UNION { [header : {h}, rows : SeqsUpTo(RawRows(h), MaxRows)]
                    : h \in HeaderRows }

\* Files of six countries, one row each and one date column, the counts
\* falling from A to F with neighbours possibly equal: more entities than
\* head(5) keeps.
ranked_csv ==
    { [header |-> <<"1/22/20">>,
       rows   |-> [i \in DOMAIN Labels |->
                     [label |-> Labels[i], cells |-> <<7 - i - drop[i]>>]]]
      : drop \in [DOMAIN Labels -> {0, 1}] }

----------------------------------------------------------------------------
(* Line 18: data.drop([...], axis=1).groupby('Country/Region').sum().T     *)

\* groupby(...).first() in place of sum(): the first row of the label only.
GroupFirst(rows, label, col) ==
    LET own == {i \in DOMAIN rows : rows[i].label = label}
        i0  == CHOOSE i \in own : \A k \in own : i <= k
    IN  IF own = {} \/ rows[i0].cells[col] = NaN THEN 0
        ELSE rows[i0].cells[col]

\* sum() skips missing cells: a missing cell adds nothing.
RECURSIVE GroupTotal(_, _, _)
GroupTotal(rows, label, col) ==
    IF rows = <<>> THEN 0
    ELSE LET r == Head(rows)
             v == IF r.label = label /\ r.cells[col] # NaN
                  THEN r.cells[col] ELSE 0
         IN  v + GroupTotal(Tail(rows), label, col)

\* One row per label that occurs, keys sorted; one column per header column.
groupby_sum(raw) ==
    LET Occurs(l) == \E i \in DOMAIN raw.rows : raw.rows[i].label = l
        keys == SelectSeq(Labels, Occurs)
    IN  [index   |-> keys,
         columns |-> raw.header,
         values  |-> [i \in DOMAIN keys |->
                        [j \in DOMAIN raw.header |->
                           GroupTotal(raw.rows, keys[i], j)]]]

\* DataFrame.T
T(df) ==
    [index   |-> df.columns,
     columns |-> df.index,
     values  |-> [i \in DOMAIN df.columns |->
                    [j \in DOMAIN df.index |-> df.values[j][i]]]]

(* Line 21: data.index = pd.to_datetime(data.index, errors='coerce')       *)

\* A month/day/year header parses to its day; anything else coerces to NaT.
parse_header(h) ==
    CASE h = "1/22/20" -> 1
      [] h = "1/23/20" -> 2
      [] OTHER -> NaT

to_datetime(df) ==
    [df EXCEPT !.index = [i \in DOMAIN df.index |-> parse_header(df.index[i])]]

(* Line 22: data = data.dropna(): drops the rows that hold a missing VALUE *)
(* (how='any' over the cells); the index labels are not looked at.         *)

\* The members of a set of positions, ascending.
RECURSIVE Ascending(_)
Ascending(S) ==
    IF S = {} THEN <<>>
    ELSE LET m == CHOOSE x \in S : \A y \in S : x <= y
         IN  <<m>> \o Ascending(S \ {m})

\* The rows of df at the positions pos, in that order.
take(df, pos) ==
    [index   |-> [k \in DOMAIN pos |-> df.index[pos[k]]],
     columns |-> df.columns,
     values  |-> [k \in DOMAIN pos |-> df.values[pos[k]]]]

dropna(df) ==
    take(df, Ascending({i \in DOMAIN df.index :
                          \A j \in DOMAIN df.columns : df.values[i][j] # NaN}))

(* Line 25: daily_cases = data.diff().fillna(0)                            *)

\* diff().clip(lower=0): negative differences clamped to zero.
diff_clipped(df) ==
    [df EXCEPT !.values =
        [i \in DOMAIN df.index |->
           [j \in DOMAIN df.columns |->
              IF i = 1 \/ df.values[i][j] = NaN \/ df.values[i - 1][j] = NaN
              THEN NaN
              ELSE IF df.values[i][j] < df.values[i - 1][j] THEN 0
              ELSE df.values[i][j] - df.values[i - 1][j]]]]

\* First difference along the rows; the first row has no predecessor.
diff(df) ==
    [df EXCEPT !.values =
        [i \in DOMAIN df.index |->
           [j \in DOMAIN df.columns |->
              IF i = 1 \/ df.values[i][j] = NaN \/ df.values[i - 1][j] = NaN
              THEN NaN
              ELSE df.values[i][j] - df.values[i - 1][j]]]]

fillna(df, v) ==
    [df EXCEPT !.values =
        [i \in DOMAIN df.index |->
           [j \in DOMAIN df.columns |->
              IF df.values[i][j] = NaN THEN v ELSE df.values[i][j]]]]

\* Lines 18-22 as one expression of the file read on line 15.
clean(raw) == dropna(to_datetime(T(groupby_sum(raw))))

----------------------------------------------------------------------------
(* Lines 90-91: data.loc[start_date:end_date] on the DatetimeIndex.        *)

\* An ISO date string of the date picker as a day.
parse_date(d) ==
    CASE d = "2020-01-22" -> 1
      [] d = "2020-01-23" -> 2
      [] OTHER -> NaT

\* DatetimeIndex.is_monotonic_increasing: false as soon as a NaT occurs.
is_monotonic_increasing(idx) ==
    /\ \A i \in DOMAIN idx : idx[i] # NaT
    /\ \A i, j \in DOMAIN idx : i < j => idx[i] <= idx[j]

\* Monotonic index: the slice between searchsorted(start, 'left') and
\* searchsorted(end, 'right'); empty when the second is not after the first.
searchsorted_slice(idx, start, end) ==
    LET lo == Cardinality({i \in DOMAIN idx : idx[i] < start})
        hi == Cardinality({i \in DOMAIN idx : idx[i] <= end})
    IN  [k \in 1..(IF hi > lo THEN hi - lo ELSE 0) |-> lo + k]

\* Non-monotonic index, string bounds: the rows the mask
\* (start <= index) & (index <= end) selects; NaT compares false.
mask_positions(idx, start, end) ==
    Ascending({i \in DOMAIN idx :
                 idx[i] # NaT /\ start <= idx[i] /\ idx[i] <= end})

\* The outcomes of slicing by two date strings.  On a non-monotonic index
\* the installed pandas decides: 2.x raises KeyError unless both cast bounds
\* occur in the index (the right bound is cast to the end of its day, which
\* no midnight label equals); 1.x warns and returns the masked rows.
slice_indexer(idx, start, end) ==
    IF is_monotonic_increasing(idx)
    THEN { [error |-> "", pos |-> searchsorted_slice(idx, start, end)] }
    ELSE { [error |-> "KeyError", pos |-> <<>>],
           [error |-> "", pos |-> mask_positions(idx, start, end)] }

----------------------------------------------------------------------------
(* Line 114: filtered_data.iloc[-1].sort_values(ascending=False).head(5)   *)

\* head(5)
TopN == 5

\* sort_values' default kind is 'quicksort', which is not stable: every
\* arrangement of the column positions with non-increasing values is a
\* result the sort may give.  DescendingOrders builds them from the front:
\* any position holding the largest value left comes next.
RECURSIVE DescendingOrders(_, _)
DescendingOrders(row, left) ==
    IF left = {} THEN { <<>> }
    ELSE UNION { { <<j>> \o rest : rest \in DescendingOrders(row, left \ {j}) }
                 : j \in {m \in left : \A k \in left : row[m] >= row[k]} }

sort_values_desc(row) == DescendingOrders(row, DOMAIN row)

head(s, n) == SubSeq(s, 1, Min(n, Len(s)))

\* The position of column name c in df, 0 when df has no such column.
column_of(df, c) ==
    IF \E j \in DOMAIN df.columns : df.columns[j] = c
    THEN CHOOSE j \in DOMAIN df.columns : df.columns[j] = c
    ELSE 0

----------------------------------------------------------------------------
(* Figures: what a px.line / px.bar call plots, the x values and one named *)
(* series per plotted column.                                              *)

NoFrame == [index |-> <<>>, columns |-> <<>>, values |-> <<>>]

NoFigure == [x |-> <<>>, names |-> <<>>, ys |-> <<>>]

\* px.line(df, x=df.index, y=<column positions cols>)
plot(df, cols) ==
    [x     |-> df.index,
     names |-> [k \in DOMAIN cols |-> df.columns[cols[k]]],
     ys    |-> [k \in DOMAIN cols |->
                  [i \in DOMAIN df.index |-> df.values[i][cols[k]]]]]

NoCall == [country |-> "", start_date |-> "", end_date |-> "",
           outcome |-> "none",
           filtered_data |-> NoFrame, filtered_daily |-> NoFrame,
           top_countries |-> <<>>]

----------------------------------------------------------------------------
(* The state machine.                                                      *)

\* After line 15: data holds the file as read.
Init ==
    /\ pc = "read"
    /\ data \in read_csv
    /\ daily_cases = NoFrame
    /\ figures = [cumulative |-> NoFigure, daily |-> NoFigure,
                  top_cumulative |-> NoFigure, top_daily |-> NoFigure]
    /\ last = NoCall

\* Lines 18-25: data is rebound to the cleaned table, daily_cases is built.
Load ==
    /\ pc = "read"
    /\ data' = clean(data)
    /\ daily_cases' = fillna(diff(data'), 0)
    /\ pc' = "serving"
    /\ UNCHANGED <<figures, last>>

\* if not selected_country: the two dates not looked at.
missing_country_only(selected_country, start_date, end_date) ==
    selected_country = ""

\* Line 87: not selected_country or not start_date or not end_date
missing_filter(selected_country, start_date, end_date) ==
    selected_country = "" \/ start_date = "" \/ end_date = ""

\* update_graphs with "global data": the slice is bound to the module's name.
query_frame_rebinds ==
    /\ UNCHANGED <<pc, daily_cases>>
    /\ \E s \in 1..2, e \in 1..2 :
          data' = take(data, mask_positions(data.index, s, e))

\* update_graphs assigns only its own locals: the module's tables stay.
query_frame == UNCHANGED <<pc, data, daily_cases>>

\* Lines 86-134: one run of the callback.  An exception leaves the four
\* figures as they are, as does dash.no_update.
update_graphs(selected_country, start_date, end_date) ==
    /\ pc = "serving"
    /\ query_frame
    /\ LET call == [NoCall EXCEPT !.country = selected_country,
                                  !.start_date = start_date,
                                  !.end_date = end_date]
       IN
       IF missing_filter(selected_country, start_date, end_date)
       THEN /\ last' = [call EXCEPT !.outcome = "no_update"]
            /\ figures' = figures
       ELSE \E sl \in slice_indexer(data.index, parse_date(start_date),
                                    parse_date(end_date)) :
            IF sl.error # ""
            THEN /\ last' = [call EXCEPT !.outcome = sl.error]
                 /\ figures' = figures
            ELSE
            LET filtered_data  == take(data, sl.pos)
                filtered_daily == take(daily_cases, sl.pos)
                col == column_of(filtered_data, selected_country)
                sliced == [call EXCEPT !.filtered_data = filtered_data,
                                       !.filtered_daily = filtered_daily]
            IN
            IF col = 0
            THEN \* px.line: y is not the name of a column
                 /\ last' = [sliced EXCEPT !.outcome = "ValueError"]
                 /\ figures' = figures
            ELSE IF sl.pos = <<>>
            THEN \* iloc[-1] on a frame of no rows
                 /\ last' = [sliced EXCEPT !.outcome = "IndexError"]
                 /\ figures' = figures
            ELSE \E order \in sort_values_desc(
                                 filtered_data.values[Len(sl.pos)]) :
                 LET top_countries == head(order, TopN)
                 IN  /\ last' = [sliced EXCEPT !.outcome = "ok",
                                        !.top_countries =
                                            [k \in DOMAIN top_countries |->
                                               data.columns[top_countries[k]]]]
                     /\ figures' =
                          [cumulative     |-> plot(filtered_data, <<col>>),
                           daily          |-> plot(filtered_daily, <<col>>),
                           top_cumulative |-> plot(filtered_data, top_countries),
                           top_daily      |-> plot(filtered_daily, top_countries)]

Query ==
    \E c \in CountryInputs, s \in DateInputs, e \in DateInputs :
        update_graphs(c, s, e)

Next == Load \/ Query

Spec == Init /\ [][Next]_vars

\* The same program started on the six-country files.
InitRanked ==
    /\ pc = "read"
    /\ data \in ranked_csv
    /\ daily_cases = NoFrame
    /\ figures = [cumulative |-> NoFigure, daily |-> NoFigure,
                  top_cumulative |-> NoFigure, top_daily |-> NoFigure]
    /\ last = NoCall

SpecRanked == InitRanked /\ [][Next]_vars

----------------------------------------------------------------------------
(* Vocabulary of the properties.                                           *)

Serving == pc = "serving"

\* The last callback run had all three filter fields and went past line 88.
Ran == Serving /\ last.outcome \notin {"none", "no_update"}

Known(c) == \E j \in DOMAIN data.columns : data.columns[j] = c

\* The rows of the table whose timestamp lies in the window of the last run.
WindowRows ==
    {i \in DOMAIN data.index :
        /\ data.index[i] # NaT
        /\ parse_date(last.start_date) <= data.index[i]
        /\ data.index[i] <= parse_date(last.end_date)}

\* Their timestamps, in table order.
WindowStamps ==
    LET rows == Ascending(WindowRows)
    IN  [k \in DOMAIN rows |-> data.index[rows[k]]]

AllFiguresEmpty ==
    /\ figures.cumulative.x = <<>>
    /\ figures.daily.x = <<>>
    /\ figures.top_cumulative.x = <<>>
    /\ figures.top_daily.x = <<>>

\* Column names ordered by descending value of row, ties in column order.
RECURSIVE StableDesc(_, _)
StableDesc(row, left) ==
    IF left = {} THEN <<>>
    ELSE LET best == CHOOSE j \in left :
                        \A k \in left : \/ row[j] > row[k]
                                        \/ row[j] = row[k] /\ j <= k
         IN  <<data.columns[best]>> \o StableDesc(row, left \ {best})

----------------------------------------------------------------------------
C2_EmptyWindowGivesEmptySeries ==
    (Ran /\ Known(last.country) /\ WindowRows = {}) =>
        (last.outcome = "ok" /\ AllFiguresEmpty)

(* C3: a run whose entity is a non-empty name that is no column of the     *)
(* table fails with the unknown-entity error (px.line's ValueError for a   *)
(* y that is no column), whatever the window.                              *)
C3_UnknownEntityFails ==
    (Ran /\ ~Known(last.country)) => last.outcome = "ValueError"

(* C4: after a run with a non-empty window the top-5 list is the first     *)
(* min(5, entities) names by descending cumulative value at the last       *)
(* timestamp of the window, equal values in table order, and both top-5    *)
(* figures plot that list.                                                 *)
C4_TopFiveStable ==
    (Ran /\ last.outcome = "ok") =>
        LET lastrow == last.filtered_data.values[Len(last.filtered_data.index)]
        IN  /\ last.top_countries =
                  head(StableDesc(lastrow, DOMAIN data.columns), 5)
            /\ figures.top_cumulative.names = last.top_countries
            /\ figures.top_daily.names = last.top_countries

(* C5: for a run with a known entity both filtered slices hold exactly the *)
(* table's timestamps t with start <= t <= end, in table order; with       *)
(* start = end = a timestamp of the table each slice is one point, the     *)
(* delta point is the table's delta there and the ranking is by that       *)
(* timestamp's cumulative values.                                          *)
C5_InclusiveWindow ==
    (Ran /\ Known(last.country)) =>
        /\ last.outcome \in {"ok", "IndexError"}
        /\ last.filtered_data.index = WindowStamps
        /\ last.filtered_daily.index = WindowStamps
        /\ \A i \in DOMAIN data.index :
              (last.start_date = last.end_date
                 /\ data.index[i] = parse_date(last.start_date)) =>
              /\ last.outcome = "ok"
              /\ last.filtered_data.values = <<data.values[i]>>
              /\ last.filtered_daily.values = <<daily_cases.values[i]>>
              /\ \A k \in 1..(Len(last.top_countries) - 1) :
                    data.values[i][column_of(data, last.top_countries[k])]
                    >= data.values[i][column_of(data, last.top_countries[k + 1])]

(* C6: after loading, no row of the cumulative table has a header that     *)
(* failed to parse: the time axis holds no NaT.                            *)
C6_NoUnparsedHeader ==
    Serving => \A i \in DOMAIN data.index : data.index[i] # NaT

(* C7: loading sums the rows of each label column-wise, a missing cell     *)
(* counting as zero, and gives each label exactly one column.              *)
C7_GroupedSums ==
    [][pc = "read" /\ pc' = "serving" =>
        /\ \A l \in {data.rows[r].label : r \in DOMAIN data.rows} :
              Cardinality({j \in DOMAIN data'.columns : data'.columns[j] = l}) = 1
        /\ \A j \in DOMAIN data'.columns :
              \E r \in DOMAIN data.rows : data.rows[r].label = data'.columns[j]
        /\ \A k \in DOMAIN data.header : \A i \in DOMAIN data'.index :
              data'.index[i] = parse_header(data.header[k]) =>
              \A j \in DOMAIN data'.columns :
                 data'.values[i][j] =
                    SumSeq([r \in DOMAIN data.rows |->
                              IF data.rows[r].label = data'.columns[j]
                                 /\ data.rows[r].cells[k] # NaN
                              THEN data.rows[r].cells[k] ELSE 0])
      ]_vars

\* A loaded table holding a total no single cell can hold.
C7_Witness ==
    /\ Serving
    /\ \E i \in DOMAIN data.index : \E j \in DOMAIN data.columns :
          data.values[i][j] \notin Counts

(* C8: no run of update_graphs, failing or not, changes the cumulative or  *)
(* the delta table.                                                        *)
C8_QueriesNeverWrite ==
    [][pc = "serving" => (data' = data /\ daily_cases' = daily_cases)]_vars

\* A failed run after a completed one, on a table of two rows.
C8_Witness ==
    /\ Serving
    /\ last.outcome = "IndexError"
    /\ figures.cumulative # NoFigure
    /\ Len(data.index) = 2

(* C9: startup never ends with a table of no timestamps (or no entities):  *)
(* an empty file or one without a parseable date column stops the load.    *)
C9_EmptyDatasetStopsStartup ==
    Serving =>
        /\ \E i \in DOMAIN data.index : data.index[i] # NaT
        /\ data.columns # <<>>

(* C10: a run with any filter field empty returns no_update without        *)
(* filtering or ranking, raises nothing and leaves the four figures as the *)
(* last complete run left them, whatever the other fields are.             *)
C10_MissingFieldIsNoUpdate ==
    [][(pc = "serving" /\ last' # last
          /\ (last'.country = "" \/ last'.start_date = "" \/ last'.end_date = ""))
        => /\ last'.outcome = "no_update"
           /\ last'.filtered_data = NoFrame
           /\ last'.top_countries = <<>>
           /\ figures' = figures]_vars

\* no_update for an unknown entity with a missing date, figures on display.
C10_Witness ==
    /\ Serving
    /\ last.outcome = "no_update"
    /\ last.country = "Z"
    /\ last.end_date = ""
    /\ figures.cumulative # NoFigure

----------------------------------------------------------------------------
(* What remains of the statements that fail only through a NaT row or a    *)
(* tie: the same formulas on tables whose headers all parsed, and the      *)
(* ranking up to the order of equal values.                                *)

AxisParsed == \A i \in DOMAIN data.index : data.index[i] # NaT

UnknownEntityFails_ParsedAxis ==
    (Serving /\ AxisParsed) => C3_UnknownEntityFails

InclusiveWindow_ParsedAxis ==
    (Serving /\ AxisParsed) => C5_InclusiveWindow

\* The top list names every column at most once, at most five of them, in
\* non-increasing order of the window's last row, and no column left out
\* has a larger value than one that is in.
TopFive_UpToTies ==
    (Ran /\ last.outcome = "ok") =>
        LET lastrow == last.filtered_data.values[Len(last.filtered_data.index)]
            top == last.top_countries
            val(c) == lastrow[column_of(data, c)]
        IN  /\ Len(top) = Min(5, Len(data.columns))
            /\ \A k \in DOMAIN top : Known(top[k])
            /\ \A k, m \in DOMAIN top : k < m =>
                  (top[k] # top[m] /\ val(top[k]) >= val(top[m]))
            /\ \A j \in DOMAIN data.columns :
                  (\A k \in DOMAIN top : top[k] # data.columns[j]) =>
                  \A k \in DOMAIN top : val(top[k]) >= lastrow[j]
            /\ figures.top_cumulative.names = top
            /\ figures.top_daily.names = top

====
